---- MODULE Spec2Model ----
(***************************************************************************)
(* backup-helper: run() of main.go as a state machine, with the two        *)
(* concurrent cshatag invocations, the line reassemblers of writer.go      *)
(* (lineBuffer, linesWriter), the report and the deferred mail step.       *)
(*                                                                         *)
(* Strings of bytes are sequences over Bytes.  An error value is a         *)
(* sequence of message parts; the nil error is the empty sequence, and     *)
(* errors.Join is concatenation (it drops nil operands and is nil only     *)
(* when all operands are nil).                                             *)
(*                                                                         *)
(* Spec is the program; MarkerSpec the program on folders that may lack    *)
(* the marker file; RecorderSpec one execCommand with a live sink that     *)
(* takes every write, SinkFailSpec one with a sink that may refuse a       *)
(* write; SyncSpec the sync step and what follows it; ReportSpec the runs  *)
(* of Spec and of SyncSpec together; LiveSpec the program with the         *)
(* scheduling of its goroutines, for progress.                             *)
(***************************************************************************)
EXTENDS Naturals, Sequences, FiniteSets, TLC

\* ------------------------------------------------------------- bounds
\* Most bytes one subprocess writes to its output before it exits.
MaxStream == 2
\* Most bytes of the transcript fed to one recorder on its own.
MaxTranscript == 4
\* Largest number of command line arguments tried (os.Args[1:]).
MaxArgs == 3
\* Most bytes one subprocess writes in the runs checked for progress.
MaxLiveStream == 1

\* ------------------------------------------------------------- values
NL == "\n"
Bytes == {"x", NL}
Nil == <<>>

\* The two verification invocations and the sync invocation, by logDesc.
CshaIn == "cshatag:input"
CshaOut == "cshatag:output"
Rsync == "rsync"
Verifiers == {CshaIn, CshaOut}
Cmds == {CshaIn, CshaOut, Rsync}
Logger == "logger"

EndOfLogs == <<"<end of logs>">>

\* All byte strings of length 1..n.
Chunks(n) == UNION {[1..k -> Bytes] : k \in 1..n}

\* fmt.Errorf(msg + ": %w", e): never nil, also when e is nil.
Errorf(msg, e) == <<msg>> \o e

\* errors.Join(a, b).
errorsJoin(a, b) == a \o b

\* Prefix: []byte(fmt.Sprintf("[%s] ", logDesc)), kept as one token.
PrefixOf(c) ==
    CASE c = CshaIn -> <<"[cshatag:input] ">>
      [] c = CshaOut -> <<"[cshatag:output] ">>
      [] OTHER -> <<"[rsync] ">>

\* ------------------------------------------------------------- writer.go
\* lineBuffer.Write, one byte of the loop.  st = [curr, outs, err, failAt]:
\* outs are the Out.Write calls made so far by this Write call, failAt the
\* index of the Out.Write call that fails (0: none).  After an error the
\* call has returned, the rest of p is not looked at.
lbByte(st, prefix, b) ==
    IF st.err THEN st
    ELSE LET c2 == Append(st.curr, b) IN
         IF b = NL
         THEN LET line == IF Len(prefix) > 0 THEN prefix \o c2 ELSE c2 IN
              IF st.failAt = Len(st.outs) + 1
              THEN [st EXCEPT !.curr = <<>>, !.err = TRUE]
              ELSE [st EXCEPT !.curr = <<>>, !.outs = Append(st.outs, line)]
         ELSE [st EXCEPT !.curr = c2]

RECURSIVE lbLoop(_, _, _, _)
lbLoop(st, prefix, p, i) ==
    IF i > Len(p) THEN st
    ELSE lbLoop(lbByte(st, prefix, p[i]), prefix, p, i + 1)

lineBuffer_Write(curr, prefix, p, failAt) ==
    lbLoop([curr |-> curr, outs |-> <<>>, err |-> FALSE, failAt |-> failAt],
           prefix, p, 1)

\* Variant: Flush empties the buffer and writes nothing.
lineBuffer_Flush_Drop(curr, ok) == [curr |-> <<>>, outs |-> <<>>]

\* lineBuffer.Flush: the remainder goes to Out as it is; the error of
\* Out.Write is dropped.  [curr, outs]; ok says whether Out took the write.
lineBuffer_Flush(curr, ok) ==
    IF Len(curr) > 0
    THEN [curr |-> <<>>, outs |-> IF ok THEN <<curr>> ELSE <<>>]
    ELSE [curr |-> curr, outs |-> <<>>]

\* Mutant: empty lines are captured too.
lwByte_KeepEmpty(lw, b) ==
    IF b = NL
    THEN [lines |-> Append(lw.lines, lw.curr), curr |-> <<>>]
    ELSE [lw EXCEPT !.curr = Append(lw.curr, b)]

\* linesWriter.Write, one byte of the loop.  lw = [lines, curr].
lwByte(lw, b) ==
    IF b = NL
    THEN IF Len(lw.curr) = 0
         THEN [lw EXCEPT !.curr = <<>>]
         ELSE [lines |-> Append(lw.lines, lw.curr), curr |-> <<>>]
    ELSE [lw EXCEPT !.curr = Append(lw.curr, b)]

RECURSIVE lwLoop(_, _, _)
lwLoop(lw, p, i) ==
    IF i > Len(p) THEN lw ELSE lwLoop(lwByte(lw, p[i]), p, i + 1)

\* Mutant: the partial line does not survive from one Write call to the next.
linesWriter_Write_ResetPerCall(lw, p) == lwLoop([lw EXCEPT !.curr = <<>>], p, 1)

linesWriter_Write(lw, p) == lwLoop(lw, p, 1)

\* linesWriter.Lines: appends the remainder, and leaves curr as it is.
linesWriter_Lines(lw) ==
    IF Len(lw.curr) > 0
    THEN [lw EXCEPT !.lines = Append(lw.lines, lw.curr)]
    ELSE lw

\* io.MultiWriter(&logw, &linew).Write(p): logw first; linew only when
\* logw.Write returned no error.  [lbCurr, outs, lw, err].
multiWrite(lbCurr, lw, prefix, p, failAt) ==
    LET r == lineBuffer_Write(lbCurr, prefix, p, failAt) IN
    [lbCurr |-> r.curr, outs |-> r.outs, err |-> r.err,
     lw |-> IF r.err THEN lw ELSE linesWriter_Write(lw, p)]

\* ------------------------------------------------------------- state
VARIABLES
    pc,         \* where run()/main() of the main goroutine stands
    exitCode,   \* the process exit status, meaningful once pc = "exit"
    cfg,        \* the global cfg (*config), NoCfg while it is the nil pointer
    err,        \* run()'s named result err
    mErr,       \* mErr of the deferred mail step (main.go:69)
    title,      \* mailReport.Title
    sections,   \* mailReport.Sections
    wg,         \* the sync.WaitGroup counter
    cmdpc,      \* per execCommand invocation: where it stands
    stream,     \* per invocation: the bytes its subprocess has written so far
    runErr,     \* per invocation: what cmd.Run() returned
    copyErr,    \* per invocation: the output copy stopped on a write error
    lbCurr,     \* per invocation: logw.curr (lineBuffer)
    lw,         \* per invocation: linew (linesWriter): [lines, curr]
    lines,      \* the caller's cshaInLines, cshaOutLines, rsyncLines
    cerr,       \* the caller's cshaInErr, cshaOutErr and the err of line 139
    log,        \* the live sink logWriter: the Write calls it took, in order
    nWrites,    \* per invocation: number of wr.Write calls so far
    probe,      \* per folder: a probe file of checkFolder is left behind
    marker,     \* per folder: it holds a .backup-helper-check file
    fault,      \* per folder: what checkFolder met there ("none": not run)
    mailState,  \* sendMail: "none", "called", "returned", "panicked"
    sendCalls,  \* number of email.Send calls
    stage       \* per stage of the run: "none", "ok" or "fail"

vars == <<pc, exitCode, cfg, err, mErr, title, sections, wg, cmdpc, stream,
          runErr, copyErr, lbCurr, lw, lines, cerr, log, nWrites, probe,
          marker, fault, mailState, sendCalls, stage>>

cmdVars == <<cmdpc, stream, runErr, copyErr, lbCurr, lw, lines, cerr, nWrites>>
mailVars == <<mErr, mailState, sendCalls>>
reportVars == <<title, sections>>

Stages == {"log", "args", "config", "checkIn", "checkOut",
           "verifyIn", "verifyOut", "sync", "mail"}
Folders == {"in", "out"}
Encryptions == {"SSL/TLS", "STARTTLS", "none"}
NoCfg == [loaded |-> FALSE, MailEncryption |-> ""]

StageOf(c) ==
    CASE c = CshaIn -> "verifyIn" [] c = CshaOut -> "verifyOut" [] OTHER -> "sync"

\* One record of the slog text handler (Info and Error; Debug is below the
\* handler's default level and is not written).
LogRecord(msg) == [src |-> Logger, data |-> <<msg, NL>>]

\* The Write calls of one lineBuffer, as entries of the live sink.
SinkWrites(c, outs) == [i \in 1..Len(outs) |-> [src |-> c, data |-> outs[i]]]

\* section{...} values.
Section(t, d, ll) == [Title |-> t, Detail |-> d, LogLines |-> ll]

\* addExecSection.
addExecSection(secs, desc, outLines, cmdline) ==
    Append(secs, Section(desc, <<cmdline>>, outLines))

\* Everything but the positions, as it is when the process starts.
Fresh ==
    /\ exitCode = 0
    /\ cfg = NoCfg
    /\ err = Nil
    /\ mErr = Nil
    /\ title = ""
    /\ sections = <<>>
    /\ wg = 0
    /\ stream = [c \in Cmds |-> <<>>]
    /\ runErr = [c \in Cmds |-> Nil]
    /\ copyErr = [c \in Cmds |-> FALSE]
    /\ lbCurr = [c \in Cmds |-> <<>>]
    /\ lw = [c \in Cmds |-> [lines |-> <<>>, curr |-> <<>>]]
    /\ lines = [c \in Cmds |-> <<>>]
    /\ cerr = [c \in Cmds |-> Nil]
    /\ log = <<>>
    /\ nWrites = [c \in Cmds |-> 0]
    /\ probe = [f \in Folders |-> FALSE]
    /\ fault = [f \in Folders |-> "none"]
    /\ mailState = "none"
    /\ sendCalls = 0
    /\ stage = [s \in Stages |-> "none"]

Init ==
    /\ pc = "create"
    /\ cmdpc = [c \in Cmds |-> "idle"]
    /\ marker = [f \in Folders |-> TRUE]
    /\ Fresh

\* ------------------------------------------------------------- run(), steps 1-3
\* main.go:25-30: the exit status main gives for what run() returned.
mainExit(e) == IF e # Nil THEN 1 ELSE 0

\* main.go:34-48: the log file.  A failure returns to main before any defer
\* exists, and main exits (main.go:25-30).
CreateLog ==
    /\ pc = "create"
    /\ \E ok \in BOOLEAN :
         IF ok
         THEN /\ pc' = "args"
              /\ stage' = [stage EXCEPT !["log"] = "ok"]
              /\ err' = Nil
              /\ exitCode' = exitCode
         ELSE /\ pc' = "exit"
              /\ stage' = [stage EXCEPT !["log"] = "fail"]
              /\ err' = Errorf("could not create log file", <<"create">>)
              /\ exitCode' = mainExit(err')
    /\ UNCHANGED <<cfg, log, probe, marker, fault, wg>>
    /\ UNCHANGED <<cmdVars, mailVars, reportVars>>

\* main.go:73-79.
ParseArgs ==
    /\ pc = "args"
    /\ \E n \in 0..MaxArgs :
         IF n # 2
         THEN /\ err' = <<"expect exactly two args">>
              /\ pc' = "finalize"
              /\ stage' = [stage EXCEPT !["args"] = "fail"]
         ELSE /\ err' = err
              /\ pc' = "config"
              /\ stage' = [stage EXCEPT !["args"] = "ok"]
    /\ UNCHANGED <<exitCode, cfg, log, probe, marker, fault, wg>>
    /\ UNCHANGED <<cmdVars, mailVars, reportVars>>

\* loadConfig: r is what reading and parsing config.json gave.
loadConfig(r) ==
    CASE r = "read" -> <<"could not read config.json in PWD">>
      [] r = "parse" -> <<"could not parse config.json in PWD">>
      [] OTHER -> Nil

\* main.go:81-85.
LoadConfig ==
    /\ pc = "config"
    /\ \E r \in {"ok", "read", "parse"}, enc \in Encryptions :
         /\ err' = loadConfig(r)
         /\ IF err' # Nil
            THEN /\ pc' = "finalize"
                 /\ cfg' = cfg
                 /\ stage' = [stage EXCEPT !["config"] = "fail"]
            ELSE /\ pc' = "checkIn"
                 /\ cfg' = [loaded |-> TRUE, MailEncryption |-> enc]
                 /\ stage' = [stage EXCEPT !["config"] = "ok"]
    /\ UNCHANGED <<exitCode, log, probe, marker, fault, wg>>
    /\ UNCHANGED <<cmdVars, mailVars, reportVars>>

\* checkFolder: r names the first phase that fails ("ok": none).
CheckOutcomes == {"ok", "write", "read", "mismatch", "cleanup"}

\* Variant: the error of os.WriteFile is not returned.
checkFolder_WriteIgnored(r) ==
    CASE r = "read" -> <<"read err">>
      [] r = "mismatch" -> <<"read check failed: different value">>
      [] r = "cleanup" -> <<"cleanup err">>
      [] OTHER -> Nil

checkFolder(r) ==
    CASE r = "write" -> <<"write err">>
      [] r = "read" -> <<"read err">>
      [] r = "mismatch" -> <<"read check failed: different value">>
      [] r = "cleanup" -> <<"cleanup err">>
      [] OTHER -> Nil

\* The probe file stays when a phase after the write fails.
probeLeft(r) == r \in {"read", "mismatch", "cleanup"}

FolderSection ==
    Section("Folders checked", <<"write, read, delete a temporary file">>,
            << <<"in: OK">>, <<"out: OK">> >>)

\* Variant: run() goes on to the output folder whatever the check of the
\* input folder returned.
CheckIn_NoFailFast ==
    /\ pc = "checkIn"
    /\ \E r \in CheckOutcomes :
         LET e == checkFolder(r) IN
         /\ probe' = [probe EXCEPT !["in"] = probeLeft(r)]
         /\ fault' = [fault EXCEPT !["in"] = r]
         /\ err' = IF e # Nil THEN Errorf("in folder", e) ELSE Nil
         /\ pc' = "checkOut"
         /\ log' = log
         /\ stage' = [stage EXCEPT !["checkIn"] = IF e # Nil THEN "fail" ELSE "ok"]
    /\ UNCHANGED <<exitCode, cfg, wg, marker>>
    /\ UNCHANGED <<cmdVars, mailVars, reportVars>>

\* main.go:88-91.
CheckIn ==
    /\ pc = "checkIn"
    /\ \E r \in CheckOutcomes :
         LET e == checkFolder(r) IN
         /\ probe' = [probe EXCEPT !["in"] = probeLeft(r)]
         /\ fault' = [fault EXCEPT !["in"] = r]
         /\ IF e # Nil
            THEN /\ err' = Errorf("in folder", e)
                 /\ pc' = "finalize"
                 /\ log' = log
                 /\ stage' = [stage EXCEPT !["checkIn"] = "fail"]
            ELSE /\ err' = Nil
                 /\ pc' = "checkOut"
                 /\ log' = Append(log, LogRecord("folder check passed"))
                 /\ stage' = [stage EXCEPT !["checkIn"] = "ok"]
    /\ UNCHANGED <<exitCode, cfg, wg, marker>>
    /\ UNCHANGED <<cmdVars, mailVars, reportVars>>

\* main.go:92-103.
CheckOut ==
    /\ pc = "checkOut"
    /\ \E r \in CheckOutcomes :
         LET e == checkFolder(r) IN
         /\ probe' = [probe EXCEPT !["out"] = probeLeft(r)]
         /\ fault' = [fault EXCEPT !["out"] = r]
         /\ IF e # Nil
            THEN /\ err' = Errorf("out folder", e)
                 /\ pc' = "finalize"
                 /\ log' = log
                 /\ sections' = sections
                 /\ stage' = [stage EXCEPT !["checkOut"] = "fail"]
            ELSE /\ err' = Nil
                 /\ pc' = "spawn"
                 /\ log' = Append(log, LogRecord("folder check passed"))
                 /\ sections' = Append(sections, FolderSection)
                 /\ stage' = [stage EXCEPT !["checkOut"] = "ok"]
    /\ UNCHANGED <<exitCode, cfg, wg, title, marker>>
    /\ UNCHANGED <<cmdVars, mailVars>>

\* ------------------------------------------------------------- execCommand
\* Number of line endings in p: the Out.Write calls lineBuffer.Write makes.
RECURSIVE CountNL(_)
CountNL(p) ==
    IF p = <<>> THEN 0
    ELSE (IF p[1] = NL THEN 1 ELSE 0) + CountNL(Tail(p))

\* What cmd.Run() returns: the exit status first, otherwise the error of
\* the output copy, otherwise nil.
cmdRunResult(status, copyFailed) ==
    IF status # 0 THEN <<"exit status 1">>
    ELSE IF copyFailed THEN <<"out err">>
    ELSE Nil

\* main.go:203-207: the error execCommand returns.
execResult(e) == IF e # Nil THEN Errorf("command failed", e) ELSE Nil

\* main.go:185-199: the recorder is built and the subprocess is started;
\* a subprocess that cannot be started makes cmd.Run() return at once.
CmdStart(c) ==
    /\ cmdpc[c] = "start"
    /\ \E launched \in BOOLEAN :
         IF launched
         THEN /\ cmdpc' = [cmdpc EXCEPT ![c] = "running"]
              /\ runErr' = runErr
         ELSE /\ cmdpc' = [cmdpc EXCEPT ![c] = "exited"]
              /\ runErr' = [runErr EXCEPT ![c] = <<"exec: not started">>]
    /\ UNCHANGED <<pc, exitCode, cfg, err, wg, log, probe, marker, fault, stage>>
    /\ UNCHANGED <<stream, copyErr, lbCurr, lw, lines, cerr, nWrites>>
    /\ UNCHANGED <<mailVars, reportVars>>

\* Variant: linew is one buffer shared by all invocations (the one of the
\* input verification) instead of a local of each.
WriteChunk_SharedCapture(c, p, failAt) ==
    LET r == multiWrite(lbCurr[c], lw[CshaIn], PrefixOf(c), p, failAt) IN
    /\ stream' = [stream EXCEPT ![c] = @ \o p]
    /\ lbCurr' = [lbCurr EXCEPT ![c] = r.lbCurr]
    /\ lw' = [lw EXCEPT ![CshaIn] = r.lw]
    /\ log' = log \o SinkWrites(c, r.outs)
    /\ copyErr' = [copyErr EXCEPT ![c] = r.err]
    /\ UNCHANGED <<pc, exitCode, cfg, err, wg, probe, marker, fault, stage>>
    /\ UNCHANGED <<cmdpc, runErr, lines, cerr>>
    /\ UNCHANGED <<mailVars, reportVars>>

\* The subprocess writes a chunk p, which the copy of os/exec hands to
\* wr.Write(p) (main.go:190, 196-197); failAt is the Out.Write call of the
\* lineBuffer that the live sink refuses (0: none).  A failed write ends
\* the copy.
WriteChunk(c, p, failAt) ==
    LET r == multiWrite(lbCurr[c], lw[c], PrefixOf(c), p, failAt) IN
    /\ stream' = [stream EXCEPT ![c] = @ \o p]
    /\ lbCurr' = [lbCurr EXCEPT ![c] = r.lbCurr]
    /\ lw' = [lw EXCEPT ![c] = r.lw]
    /\ log' = log \o SinkWrites(c, r.outs)
    /\ copyErr' = [copyErr EXCEPT ![c] = r.err]
    /\ UNCHANGED <<pc, exitCode, cfg, err, wg, probe, marker, fault, stage>>
    /\ UNCHANGED <<cmdpc, runErr, lines, cerr>>
    /\ UNCHANGED <<mailVars, reportVars>>

\* A chunk that the live sink takes.
CmdWrite(c) ==
    /\ cmdpc[c] = "running"
    /\ ~copyErr[c]
    /\ Len(stream[c]) < MaxStream
    /\ \E p \in Chunks(MaxStream - Len(stream[c])) : WriteChunk(c, p, 0)
    /\ UNCHANGED nWrites

\* The subprocess exits and cmd.Run() returns (main.go:199).
CmdExit(c) ==
    /\ cmdpc[c] = "running"
    /\ \E status \in {0, 1} :
         runErr' = [runErr EXCEPT ![c] = cmdRunResult(status, copyErr[c])]
    /\ cmdpc' = [cmdpc EXCEPT ![c] = "exited"]
    /\ UNCHANGED <<pc, exitCode, cfg, err, wg, log, probe, marker, fault, stage>>
    /\ UNCHANGED <<stream, copyErr, lbCurr, lw, lines, cerr, nWrites>>
    /\ UNCHANGED <<mailVars, reportVars>>

\* Variant: no lines are returned with an error.
execLines_NilOnError(captured, e) ==
    IF e # Nil THEN <<>> ELSE Append(captured, EndOfLogs)

\* main.go:201-207: the lines execCommand returns, with e the error of
\* cmd.Run(): the captured ones and the end marker, on both paths.
execLines(captured, e) == Append(captured, EndOfLogs)

\* main.go:200-207: logw.Flush(), linew.Lines(), the end marker, return.
\* ok says whether the live sink takes the write of Flush.
Return(c, ok) ==
    /\ cmdpc[c] = "exited"
    /\ LET f == lineBuffer_Flush(lbCurr[c], ok) IN
         /\ lbCurr' = [lbCurr EXCEPT ![c] = f.curr]
         /\ log' = log \o SinkWrites(c, f.outs)
    /\ lw' = [lw EXCEPT ![c] = linesWriter_Lines(@)]
    /\ lines' = [lines EXCEPT ![c] = execLines(lw'[c].lines, runErr[c])]
    /\ cerr' = [cerr EXCEPT ![c] = execResult(runErr[c])]
    /\ stage' = [stage EXCEPT ![StageOf(c)] = IF runErr[c] = Nil THEN "ok" ELSE "fail"]
    /\ cmdpc' = [cmdpc EXCEPT ![c] = "returned"]
    /\ UNCHANGED <<pc, exitCode, cfg, err, wg, probe, marker, fault>>
    /\ UNCHANGED <<stream, runErr, copyErr, nWrites>>
    /\ UNCHANGED <<mailVars, reportVars>>

ExecReturn(c) == Return(c, TRUE)

\* The same with a live sink that refuses the write of Flush.
ExecReturnFlushFail(c) == Len(lbCurr[c]) > 0 /\ Return(c, FALSE)

\* ------------------------------------------------------------- run(), step 4
\* main.go:107-124: wg.Add(2) and the two goroutines.
SpawnVerify ==
    /\ pc = "spawn"
    /\ wg' = 2
    /\ cmdpc' = [c \in Cmds |-> IF c \in Verifiers THEN "start" ELSE cmdpc[c]]
    /\ pc' = "wait"
    /\ UNCHANGED <<exitCode, cfg, err, log, probe, marker, fault, stage>>
    /\ UNCHANGED <<stream, runErr, copyErr, lbCurr, lw, lines, cerr, nWrites>>
    /\ UNCHANGED <<mailVars, reportVars>>

FinishedRecord(c) ==
    IF c = CshaIn THEN LogRecord("cshatag on input finished")
    ELSE LogRecord("cshatag on output finished")

\* Variant: the goroutine ends without wg.Done().
TaskDone_NoDone(c) ==
    /\ c \in Verifiers
    /\ cmdpc[c] = "returned"
    /\ log' = Append(log, FinishedRecord(c))
    /\ wg' = wg
    /\ cmdpc' = [cmdpc EXCEPT ![c] = "done"]
    /\ UNCHANGED <<pc, exitCode, cfg, err, probe, marker, fault, stage>>
    /\ UNCHANGED <<stream, runErr, copyErr, lbCurr, lw, lines, cerr, nWrites>>
    /\ UNCHANGED <<mailVars, reportVars>>

\* main.go:112-116, 119-123: the rest of a goroutine after execCommand
\* returned: logger.Info and the deferred wg.Done().
TaskDone(c) ==
    /\ c \in Verifiers
    /\ cmdpc[c] = "returned"
    /\ log' = Append(log, FinishedRecord(c))
    /\ wg' = wg - 1
    /\ cmdpc' = [cmdpc EXCEPT ![c] = "done"]
    /\ UNCHANGED <<pc, exitCode, cfg, err, probe, marker, fault, stage>>
    /\ UNCHANGED <<stream, runErr, copyErr, lbCurr, lw, lines, cerr, nWrites>>
    /\ UNCHANGED <<mailVars, reportVars>>

\* main.go:126-129: the two verification sections.
verifySections(secs, inLines, outLines) ==
    addExecSection(
        addExecSection(secs, "cshatag on input folder", inLines,
                       "cshatag -q -recursive in"),
        "cshatag on output folder", outLines, "cshatag -q -recursive out")

\* main.go:130-131: both results are wrapped with fmt.Errorf and joined,
\* whether they are nil or not.
verifyErr(e, inErr, outErr) ==
    errorsJoin(errorsJoin(e, Errorf("cshatag on input folder failed", inErr)),
               Errorf("cshatag on output folder failed", outErr))

\* Mutant: the check of line 132 lets a failed verification through.
stopAfterVerify_Never(e) == FALSE

\* main.go:132: if err != nil { return err }.
stopAfterVerify(e) == e # Nil

\* Mutant: the join lets go when one task is still running.
joined_Early(w) == w <= 1

\* main.go:125: wg.Wait() returns once the counter is zero.
joined(w) == w = 0

\* main.go:125-134: wg.Wait() returns, the sections, the joined error.
Join ==
    /\ pc = "wait"
    /\ joined(wg)
    /\ sections' = verifySections(sections, lines[CshaIn], lines[CshaOut])
    /\ err' = verifyErr(err, cerr[CshaIn], cerr[CshaOut])
    /\ pc' = IF stopAfterVerify(err') THEN "finalize" ELSE "sync"
    /\ UNCHANGED <<exitCode, cfg, wg, log, probe, marker, fault, stage, title>>
    /\ UNCHANGED <<cmdVars, mailVars>>

\* ------------------------------------------------------------- run(), step 5
\* main.go:138-139: rsync is started; run() waits for execCommand.
SyncStart ==
    /\ pc = "sync"
    /\ cmdpc' = [cmdpc EXCEPT ![Rsync] = "start"]
    /\ pc' = "rsync"
    /\ UNCHANGED <<exitCode, cfg, err, wg, log, probe, marker, fault, stage>>
    /\ UNCHANGED <<stream, runErr, copyErr, lbCurr, lw, lines, cerr, nWrites>>
    /\ UNCHANGED <<mailVars, reportVars>>

\* main.go:143-144: what run() returns after the sync step, e being the
\* err that line 139 assigned: logger.Info("sync successful!"); return nil.
syncReturn(e) == Nil

\* main.go:139-144: execCommand returned; the section; return.
SyncReturn ==
    /\ pc = "rsync"
    /\ cmdpc[Rsync] = "returned"
    /\ sections' = addExecSection(sections, "rsync from input to output folder",
                                  lines[Rsync], "rsync -avu --delete in/ out")
    /\ log' = Append(log, LogRecord("sync successful!"))
    /\ err' = syncReturn(cerr[Rsync])
    /\ cmdpc' = [cmdpc EXCEPT ![Rsync] = "done"]
    /\ pc' = "finalize"
    /\ UNCHANGED <<exitCode, cfg, wg, probe, marker, fault, stage, title>>
    /\ UNCHANGED <<stream, runErr, copyErr, lbCurr, lw, lines, cerr, nWrites>>
    /\ UNCHANGED mailVars

\* ------------------------------------------------------------- Finalize
ErrorTitle == "[ERROR] Backup Helper report"
SuccessTitle == "[SUCCESS] Backup Helper report"

\* Variant: the title does not depend on the error.
outcomeTitle_AlwaysSuccess(e) == SuccessTitle

\* main.go:56-68: the title for the error run() returned with.
outcomeTitle(e) == IF e # Nil THEN ErrorTitle ELSE SuccessTitle

\* main.go:56-68: the outcome section.
outcomeSection(e) ==
    IF e # Nil
    THEN Section("Error", <<"Error contents:">> \o e, <<>>)
    ELSE Section("Success", <<"No error reported - looking good!">>, <<>>)

\* main.go:55-69: the deferred function up to the call of sendMail.
Finalize ==
    /\ pc = "finalize"
    /\ title' = outcomeTitle(err)
    /\ sections' = Append(sections, outcomeSection(err))
    /\ mailState' = "called"
    /\ pc' = "mail"
    /\ UNCHANGED <<exitCode, cfg, err, wg, log, probe, marker, fault, stage, mErr, sendCalls>>
    /\ UNCHANGED cmdVars

\* main.go:231-245: the template, then the message built from cfg.  cfg is
\* a nil pointer unless loadConfig succeeded; cfg.FromMail then panics.
MailBuild ==
    /\ pc = "mail"
    /\ IF ~cfg.loaded
       THEN /\ pc' = "panic"
            /\ mailState' = "panicked"
            /\ mErr' = mErr
       ELSE \E ok \in BOOLEAN :
              /\ mailState' = mailState
              /\ IF ok
                 THEN /\ pc' = "mailClient"
                      /\ mErr' = mErr
                 ELSE /\ pc' = "mailJoin"
                      /\ mErr' = <<"could not build email">>
    /\ UNCHANGED <<exitCode, cfg, err, wg, log, probe, marker, fault, stage, sendCalls>>
    /\ UNCHANGED <<cmdVars, reportVars>>

\* mailClient(): the encryption switch.
knownEncryption(enc) == enc \in {"SSL/TLS", "STARTTLS"}

\* main.go:247-250, 264-285.
MailClient ==
    /\ pc = "mailClient"
    /\ IF ~knownEncryption(cfg.MailEncryption)
       THEN /\ mErr' = <<"unknown encryption in config">>
            /\ pc' = "mailJoin"
       ELSE \E ok \in BOOLEAN :
              IF ok
              THEN /\ mErr' = mErr
                   /\ pc' = "mailSend"
              ELSE /\ mErr' = <<"could not connect to mail server">>
                   /\ pc' = "mailJoin"
    /\ UNCHANGED <<exitCode, cfg, err, wg, log, probe, marker, fault, stage, mailState, sendCalls>>
    /\ UNCHANGED <<cmdVars, reportVars>>

\* main.go:253-261.
MailSend ==
    /\ pc = "mailSend"
    /\ sendCalls' = sendCalls + 1
    /\ \E ok \in BOOLEAN :
         IF ok
         THEN /\ mErr' = Nil
              /\ log' = Append(log, LogRecord("mail sent"))
         ELSE /\ mErr' = <<"could not send email">>
              /\ log' = log
    /\ pc' = "mailJoin"
    /\ UNCHANGED <<exitCode, cfg, err, wg, probe, marker, fault, stage, mailState>>
    /\ UNCHANGED <<cmdVars, reportVars>>

\* Mutant: the error of sendMail replaces the workflow error.
finalErr_MailOnly(e, m) == IF m # Nil THEN m ELSE e

\* main.go:70: err = errors.Join(err, mErr).
finalErr(e, m) == errorsJoin(e, m)

\* main.go:69-70 (sendMail returned), then the deferred function of lines
\* 44-48 and logFile.Close(); run() returns to main, which exits.
MailJoin ==
    /\ pc = "mailJoin"
    /\ err' = finalErr(err, mErr)
    /\ mailState' = "returned"
    /\ stage' = [stage EXCEPT !["mail"] = IF mErr = Nil THEN "ok" ELSE "fail"]
    /\ log' = IF err' # Nil THEN Append(log, LogRecord("program failed")) ELSE log
    /\ exitCode' = mainExit(err')
    /\ pc' = "exit"
    /\ UNCHANGED <<cfg, wg, probe, marker, fault, mErr, sendCalls>>
    /\ UNCHANGED <<cmdVars, reportVars>>

\* The nil pointer panic unwinds run(): the deferred function of lines
\* 44-48 still logs, then the runtime ends the process with status 2.
Crash ==
    /\ pc = "panic"
    /\ log' = IF err # Nil THEN Append(log, LogRecord("program failed")) ELSE log
    /\ exitCode' = 2
    /\ pc' = "exit"
    /\ UNCHANGED <<cfg, err, wg, probe, marker, fault, stage>>
    /\ UNCHANGED <<cmdVars, mailVars, reportVars>>

\* ------------------------------------------------------------- the program
Next ==
    \/ CreateLog
    \/ ParseArgs
    \/ LoadConfig
    \/ CheckIn
    \/ CheckOut
    \/ SpawnVerify
    \/ \E c \in Verifiers : CmdStart(c)
    \/ \E c \in Verifiers : CmdWrite(c)
    \/ \E c \in Verifiers : CmdExit(c)
    \/ \E c \in Verifiers : ExecReturn(c)
    \/ \E c \in Verifiers : TaskDone(c)
    \/ Join
    \/ Finalize
    \/ MailBuild
    \/ MailClient
    \/ MailSend
    \/ MailJoin
    \/ Crash

Spec == Init /\ [][Next]_vars

\* The same program started on folders that may lack the marker file
\* .backup-helper-check (README.md:12): no line of main.go reads it, so
\* marker is never consulted and never changed.
MarkerInit ==
    /\ pc = "create"
    /\ cmdpc = [c \in Cmds |-> "idle"]
    /\ marker \in [Folders -> BOOLEAN]
    /\ Fresh

MarkerSpec == MarkerInit /\ [][Next]_vars

\* ------------------------------------------------------------- one recorder
\* execCommand on its own, from the moment its subprocess runs: the
\* recorder of main.go:185-190 is fed a transcript of up to MaxTranscript
\* bytes in chunks of any sizes, then flushed (main.go:199-207).
RecInit ==
    /\ pc = "recorder"
    /\ cmdpc \in {[c \in Cmds |-> IF c = r THEN "running" ELSE "idle"] : r \in Cmds}
    /\ marker = [f \in Folders |-> TRUE]
    /\ Fresh

RecWrite(c) ==
    /\ cmdpc[c] = "running"
    /\ ~copyErr[c]
    /\ Len(stream[c]) < MaxTranscript
    /\ \E p \in Chunks(MaxTranscript - Len(stream[c])) : WriteChunk(c, p, 0)
    /\ nWrites' = [nWrites EXCEPT ![c] = @ + 1]

RecNext ==
    \/ \E c \in Cmds : RecWrite(c)
    \/ \E c \in Cmds : CmdExit(c)
    \/ \E c \in Cmds : ExecReturn(c)

RecorderSpec == RecInit /\ [][RecNext]_vars

\* ------------------------------------------------------------- a failing sink
\* execCommand on its own, from its first line, with a live sink that may
\* refuse a write: the one of a line of a chunk, which ends the copy
\* (writer.go:33-37), or the one of Flush, whose error is dropped
\* (writer.go:46).
SinkFailInit ==
    /\ pc = "recorder"
    /\ cmdpc \in {[c \in Cmds |-> IF c = r THEN "start" ELSE "idle"] : r \in Cmds}
    /\ marker = [f \in Folders |-> TRUE]
    /\ Fresh

RecWriteFail(c) ==
    /\ cmdpc[c] = "running"
    /\ ~copyErr[c]
    /\ Len(stream[c]) < MaxTranscript
    /\ \E p \in Chunks(MaxTranscript - Len(stream[c])) :
         \E failAt \in 1..CountNL(p) : WriteChunk(c, p, failAt)
    /\ nWrites' = [nWrites EXCEPT ![c] = @ + 1]

SinkFailNext ==
    \/ \E c \in Cmds : CmdStart(c)
    \/ \E c \in Cmds : RecWrite(c)
    \/ \E c \in Cmds : RecWriteFail(c)
    \/ \E c \in Cmds : CmdExit(c)
    \/ \E c \in Cmds : ExecReturn(c)
    \/ \E c \in Cmds : ExecReturnFlushFail(c)

SinkFailSpec == SinkFailInit /\ [][SinkFailNext]_vars

\* ------------------------------------------------------------- the sync step
\* The sync step of run() (main.go:136-145) and what follows it, from the
\* state in which line 132 finds err nil after a quiet verification of both
\* folders.  Spec never gets there: Join always finds err non-nil.
SyncInit ==
    /\ pc = "sync"
    /\ exitCode = 0
    /\ cfg \in {[loaded |-> TRUE, MailEncryption |-> enc] : enc \in Encryptions}
    /\ err = Nil
    /\ mErr = Nil
    /\ title = ""
    /\ sections = verifySections(<<FolderSection>>, <<EndOfLogs>>, <<EndOfLogs>>)
    /\ wg = 0
    /\ cmdpc = [c \in Cmds |-> IF c \in Verifiers THEN "done" ELSE "idle"]
    /\ stream = [c \in Cmds |-> <<>>]
    /\ runErr = [c \in Cmds |-> Nil]
    /\ copyErr = [c \in Cmds |-> FALSE]
    /\ lbCurr = [c \in Cmds |-> <<>>]
    /\ lw = [c \in Cmds |-> [lines |-> <<>>, curr |-> <<>>]]
    /\ lines = [c \in Cmds |-> IF c \in Verifiers THEN <<EndOfLogs>> ELSE <<>>]
    /\ cerr = [c \in Cmds |-> Nil]
    /\ log = <<LogRecord("folder check passed"), LogRecord("folder check passed"),
               FinishedRecord(CshaIn), FinishedRecord(CshaOut)>>
    /\ nWrites = [c \in Cmds |-> 0]
    /\ probe = [f \in Folders |-> FALSE]
    /\ marker = [f \in Folders |-> TRUE]
    /\ fault = [f \in Folders |-> "ok"]
    /\ mailState = "none"
    /\ sendCalls = 0
    /\ stage = [s \in Stages |-> IF s \in {"sync", "mail"} THEN "none" ELSE "ok"]

SyncNext ==
    \/ SyncStart
    \/ CmdStart(Rsync)
    \/ CmdWrite(Rsync)
    \/ CmdExit(Rsync)
    \/ ExecReturn(Rsync)
    \/ SyncReturn
    \/ Finalize
    \/ MailBuild
    \/ MailClient
    \/ MailSend
    \/ MailJoin

SyncSpec == SyncInit /\ [][SyncNext]_vars

\* ------------------------------------------------------------- the report
\* Both of the above together: the runs of the program, and the runs of
\* its last part from line 136 with err nil, the only ones in which the
\* deferred function of main.go:55-71 finds err nil.
ReportInit == Init \/ SyncInit

ReportNext == Next \/ SyncNext

ReportSpec == ReportInit /\ [][ReportNext]_vars

\* ------------------------------------------------------------- progress
\* The program with subprocesses that write at most MaxLiveStream bytes,
\* and with the scheduling of the Go runtime: the main goroutine and each
\* of the two goroutines of main.go:110-124 take their next step when they
\* can.  When a subprocess writes or exits is up to the subprocess: it
\* may stay running for ever.
LiveWrite(c) ==
    /\ cmdpc[c] = "running"
    /\ ~copyErr[c]
    /\ Len(stream[c]) < MaxLiveStream
    /\ \E p \in Chunks(MaxLiveStream - Len(stream[c])) : WriteChunk(c, p, 0)
    /\ UNCHANGED nWrites

\* The steps of the main goroutine.
MainStep ==
    \/ CreateLog
    \/ ParseArgs
    \/ LoadConfig
    \/ CheckIn
    \/ CheckOut
    \/ SpawnVerify
    \/ Join
    \/ Finalize
    \/ MailBuild
    \/ MailClient
    \/ MailSend
    \/ MailJoin
    \/ Crash

\* The steps of the goroutine of invocation c that are its own.
TaskStep(c) ==
    \/ CmdStart(c)
    \/ ExecReturn(c)
    \/ TaskDone(c)

LiveNext ==
    \/ MainStep
    \/ \E c \in Verifiers : TaskStep(c)
    \/ \E c \in Verifiers : LiveWrite(c)
    \/ \E c \in Verifiers : CmdExit(c)

LiveSpec ==
    /\ Init
    /\ [][LiveNext]_vars
    /\ WF_vars(MainStep)
    /\ \A c \in Verifiers : WF_vars(TaskStep(c))

\* ------------------------------------------------------------- report, log
HasSection(t) == \E i \in 1..Len(sections) : sections[i].Title = t
OutcomeTitles == {"Error", "Success"}
OutcomeIndexes == {i \in 1..Len(sections) : sections[i].Title \in OutcomeTitles}
InSectionTitle == "cshatag on input folder"
OutSectionTitle == "cshatag on output folder"
SyncSectionTitle == "rsync from input to output folder"

\* The place of a section in the fixed order of the report.
Rank(t) ==
    CASE t = "Folders checked" -> 1
      [] t = InSectionTitle -> 2
      [] t = OutSectionTitle -> 3
      [] t = SyncSectionTitle -> 4
      [] OTHER -> 5

\* The workflow error the outcome section reports (its Detail holds
\* err.Error() of the error run() returned with).
ReportedErr ==
    LET last == sections[Len(sections)] IN
    IF last.Title = "Error" THEN Tail(last.Detail) ELSE Nil

IsPrefix(a, b) == Len(a) <= Len(b) /\ SubSeq(b, 1, Len(a)) = a
IsSuffix(a, b) == Len(a) <= Len(b) /\ SubSeq(b, Len(b) - Len(a) + 1, Len(b)) = a

NoStageFailed == \A st \in Stages : stage[st] # "fail"

\* The bytes of the live sink in order, each with the writer it came from.
RECURSIVE Flatten(_)
Flatten(l) ==
    IF l = <<>> THEN <<>>
    ELSE [i \in 1..Len(l[1].data) |-> [src |-> l[1].src, b |-> l[1].data[i]]]
         \o Flatten(Tail(l))

\* The Write calls the live sink took from invocation c.
RECURSIVE WritesOf(_, _)
WritesOf(l, c) ==
    IF l = <<>> THEN <<>>
    ELSE (IF l[1].src = c THEN <<l[1].data>> ELSE <<>>) \o WritesOf(Tail(l), c)

\* A transcript split on line endings: every line with its ending, and a
\* last unterminated fragment if there is one.
HasNL(t) == \E i \in 1..Len(t) : t[i] = NL
FirstNL(t) == CHOOSE i \in 1..Len(t) : t[i] = NL /\ \A j \in 1..(i - 1) : t[j] # NL
RECURSIVE SplitLines(_)
SplitLines(t) ==
    IF t = <<>> THEN <<>>
    ELSE IF HasNL(t)
         THEN <<SubSeq(t, 1, FirstNL(t))>> \o SplitLines(SubSeq(t, FirstNL(t) + 1, Len(t)))
         ELSE <<t>>

StripNL(l) == IF Len(l) > 0 /\ l[Len(l)] = NL THEN SubSeq(l, 1, Len(l) - 1) ELSE l
StripPrefix(l, prefix) ==
    IF IsPrefix(prefix, l) THEN SubSeq(l, Len(prefix) + 1, Len(l)) ELSE l
NonEmpty(l) == Len(l) > 0

\* The lines of a sequence of writes, without prefix and line ending.
Bare(ws, prefix) == [i \in 1..Len(ws) |-> StripNL(StripPrefix(ws[i], prefix))]

\* ------------------------------------------------------------- claims

\* C1: on every exit path after the log file was opened, Finalize runs:
\* the report ends with exactly one outcome section and sendMail is gone
\* through to its return, so that the send was attempted and the run did
\* not crash before it.
C1_FinalizeAlwaysSends ==
    (pc = "exit" /\ stage["log"] = "ok") =>
        /\ Len(sections) > 0
        /\ OutcomeIndexes = {Len(sections)}
        /\ mailState = "returned"

\* C2: for a run that ends through main (not in a panic), the exit status
\* is 0 exactly when no stage failed, and 1 when a stage failed.
C2_ExitStatus ==
    (pc = "exit" /\ mailState # "panicked") =>
        /\ (exitCode = 0) <=> NoStageFailed
        /\ ~NoStageFailed => exitCode = 1

\* C3: once both verification commands returned without error and the join
\* is passed, the workflow error is nil and the sync step is what follows:
\* run() stands at the sync step with err nil, or rsync has been started.
C3_SyncAfterCleanVerify ==
    (/\ pc # "wait"
     /\ cmdpc[CshaIn] = "done" /\ cmdpc[CshaOut] = "done"
     /\ cerr[CshaIn] = Nil /\ cerr[CshaOut] = Nil) =>
        \/ pc = "sync" /\ err = Nil
        \/ cmdpc[Rsync] # "idle"

\* C4: when a verification command returned an error, run() never stands at
\* the sync step and rsync is never started, and the report handed to
\* sendMail has both verification sections and the Error section and no
\* sync section.
C4_VerifyFailureBlocksSync ==
    (cerr[CshaIn] # Nil \/ cerr[CshaOut] # Nil) =>
        /\ pc \notin {"sync", "rsync"}
        /\ cmdpc[Rsync] = "idle"
        /\ mailState # "none" =>
              /\ HasSection(InSectionTitle)
              /\ HasSection(OutSectionTitle)
              /\ HasSection("Error")
              /\ ~HasSection("Success")
              /\ ~HasSection(SyncSectionTitle)

C4_Witness ==
    /\ pc = "exit"
    /\ cerr[CshaIn] # Nil
    /\ cerr[CshaOut] = Nil
    /\ HasSection("Error")
    /\ HasSection(OutSectionTitle)

\* C5: no verification section is in the report before both verification
\* tasks are done, and the sections of the report are always in the fixed
\* order folder check, source verification, destination verification, sync,
\* outcome, each at most once.
C5_SectionOrder ==
    /\ (HasSection(InSectionTitle) \/ HasSection(OutSectionTitle)) =>
          cmdpc[CshaIn] = "done" /\ cmdpc[CshaOut] = "done"
    /\ \A i, j \in 1..Len(sections) :
          i < j => Rank(sections[i].Title) < Rank(sections[j].Title)

\* The destination task finished first, and both sections are in the report.
C5_Witness ==
    /\ HasSection(InSectionTitle)
    /\ HasSection(OutSectionTitle)
    /\ \E i, j \in 1..Len(log) :
          /\ i < j
          /\ log[i] = FinishedRecord(CshaOut)
          /\ log[j] = FinishedRecord(CshaIn)

C7_ReturnedErrorIsJoin ==
    (pc = "exit" /\ mailState = "returned") =>
        /\ (err = Nil) <=> (ReportedErr = Nil /\ mErr = Nil)
        /\ mErr # Nil => err # Nil
        /\ IsPrefix(ReportedErr, err)
        /\ IsSuffix(mErr, err)
        /\ Len(err) = Len(ReportedErr) + Len(mErr)

\* A workflow error and a failed send.
C7_Witness ==
    /\ pc = "exit"
    /\ mailState = "returned"
    /\ ReportedErr # Nil
    /\ mErr # Nil

\* C8: no line of the live log holds bytes of both verification
\* subprocesses.
C8_NoMixedLines ==
    LET f == Flatten(log) IN
    \A i, j \in 1..Len(f) :
        (/\ i < j
         /\ f[i].src \in Cmds /\ f[j].src \in Cmds
         /\ \A k \in i..(j - 1) : f[k].b # NL) => f[i].src = f[j].src

\* C9: once a transcript, fed in any chunks, is flushed, what the
\* lineBuffer emitted is the transcript split on line endings, and the
\* captured lines are those lines without ending, the empty ones left out;
\* an unterminated rest is the last line of both, once.
C9_ChunkingInvariance ==
    \A c \in Cmds :
        cmdpc[c] = "returned" =>
            /\ Bare(WritesOf(log, c), PrefixOf(c)) = Bare(SplitLines(stream[c]), <<>>)
            /\ lw[c].lines = SelectSeq(Bare(SplitLines(stream[c]), <<>>), NonEmpty)

\* A transcript with an empty line and an unterminated rest, fed in more
\* than one chunk and flushed.
C9_Witness ==
    \E c \in Cmds :
        /\ cmdpc[c] = "returned"
        /\ nWrites[c] > 1
        /\ stream[c] = <<"x", NL, NL, "x">>

\* C10: after the flush the captured lines are, in order, the non-empty
\* lines written to the live sink without prefix and line ending, and the
\* live sink holds as many empty lines as the transcript has.
C10_CaptureMatchesLiveSink ==
    \A c \in Cmds :
        cmdpc[c] = "returned" =>
            LET live == Bare(WritesOf(log, c), PrefixOf(c)) IN
            /\ lw[c].lines = SelectSeq(live, NonEmpty)
            /\ Len(live) - Len(lw[c].lines)
                 = Cardinality({i \in 1..Len(stream[c]) :
                       stream[c][i] = NL /\ (i = 1 \/ stream[c][i - 1] = NL)})

\* The live sink holds an empty line that the capture leaves out.
C10_Witness ==
    \E c \in Cmds :
        /\ cmdpc[c] = "returned"
        /\ Len(lw[c].lines) > 0
        /\ Len(WritesOf(log, c)) > Len(lw[c].lines)

\* ------------------------------------------------------------- C11
\* What cmd.Run() returned tells why: the subprocess was not started, or
\* it exited with a status other than 0.
SubprocessFailed(c) ==
    runErr[c] \in {<<"exec: not started">>, <<"exit status 1">>}
Returned(c) == cmdpc[c] \in {"returned", "done"}

\* The lines are the captured ones followed by the end marker, which is
\* the last element and occurs once.
MarkerLast(c) ==
    /\ lines[c] # <<>>
    /\ lines[c][Len(lines[c])] = EndOfLogs
    /\ SubSeq(lines[c], 1, Len(lines[c]) - 1) = lw[c].lines
    /\ \A i \in 1..(Len(lines[c]) - 1) : lines[c][i] # EndOfLogs

C12_MarkerCheckedBeforeVerify ==
    (\E f \in Folders : ~marker[f]) =>
        /\ \A c \in Cmds : cmdpc[c] = "idle"
        /\ ~HasSection("Folders checked")

\* ------------------------------------------------------------- C13
CheckStage(f) == IF f = "in" THEN "checkIn" ELSE "checkOut"
FolderLabel(f) == IF f = "in" THEN "in folder" ELSE "out folder"

\* C13: checkFolder on a folder where writing, reading back and deleting
\* work returns nil and leaves no probe file; on a folder that cannot be
\* written it returns the write error, and then the "Folders checked"
\* section is never appended to the report.
C13_CheckFolderOutcome ==
    \A f \in Folders :
        /\ fault[f] = "ok" =>
              /\ stage[CheckStage(f)] = "ok"
              /\ ~probe[f]
        /\ fault[f] = "write" =>
              /\ stage[CheckStage(f)] = "fail"
              /\ IsPrefix(<<FolderLabel(f), "write err">>, err)
              /\ ~probe[f]
              /\ ~HasSection("Folders checked")

\* The run has ended after the input folder passed and the output folder
\* could not be written.
C13_Witness ==
    /\ pc = "exit"
    /\ fault["in"] = "ok"
    /\ fault["out"] = "write"
    /\ mailState = "returned"

\* ------------------------------------------------------------- C14
\* The steps of run() before the verification, in the order of main.go.
Preflight == <<"args", "config", "checkIn", "checkOut">>
AfterRun == {"finalize", "mail", "mailClient", "mailSend", "mailJoin",
             "panic", "exit"}

\* C14: argument parsing, configuration loading, the check of the source
\* folder and the check of the destination folder run in this order, each
\* only after the one before succeeded; after a failure no later step
\* runs, only the deferred finalisation; the "Folders checked" section is
\* in the report only when both checks succeeded, and no verification
\* subprocess is started before it is.
C14_PreflightFailFast ==
    /\ \A i \in 2..Len(Preflight) :
          stage[Preflight[i]] # "none" => stage[Preflight[i - 1]] = "ok"
    /\ \A i \in 1..Len(Preflight) :
          stage[Preflight[i]] = "fail" =>
              /\ pc \in AfterRun
              /\ \A c \in Cmds : cmdpc[c] = "idle"
              /\ \A s \in {"verifyIn", "verifyOut", "sync"} : stage[s] = "none"
    /\ HasSection("Folders checked") =>
          stage["checkIn"] = "ok" /\ stage["checkOut"] = "ok"
    /\ \A c \in Cmds : cmdpc[c] # "idle" => HasSection("Folders checked")

\* The run has ended after the check of the input folder failed: the
\* output folder was not touched.
C14_Witness ==
    /\ pc = "exit"
    /\ stage["checkIn"] = "fail"
    /\ fault["out"] = "none"
    /\ sendCalls = 1

\* ------------------------------------------------------------- C15
\* C15: with a non-empty Prefix, every line a lineBuffer hands to the live
\* sink begins with that prefix, the unterminated rest that Flush hands
\* over included.
C15_EveryEmittedLinePrefixed ==
    \A i \in 1..Len(log) :
        log[i].src \in Cmds => IsPrefix(PrefixOf(log[i].src), log[i].data)

\* ------------------------------------------------------------- C16
\* C16: a write that the live sink refuses is returned as an error of the
\* recorder's Write, and the capture still gets the bytes of that chunk:
\* whatever the live sink did, the captured lines are the non-empty lines
\* of all that the subprocess wrote.
C16_CaptureSurvivesSinkFailure ==
    \A c \in Cmds :
        Returned(c) =>
            lw[c].lines = SelectSeq(Bare(SplitLines(stream[c]), <<>>), NonEmpty)

\* ------------------------------------------------------------- C17
\* The unterminated rest of a transcript (<<>> when it ends with a line
\* ending or is empty).
Fragment(t) ==
    IF t # <<>> /\ t[Len(t)] # NL
    THEN SplitLines(t)[Len(SplitLines(t))]
    ELSE <<>>
LastOf(q) == IF q = <<>> THEN <<>> ELSE q[Len(q)]

\* After the return of an invocation nothing is left in its lineBuffer,
\* and an unterminated rest of the output is the last write of the
\* invocation in the live sink and the last captured line, whether
\* cmd.Run() returned an error or not.
FlushDelivered ==
    \A c \in Cmds :
        Returned(c) =>
            /\ lbCurr[c] = <<>>
            /\ Fragment(stream[c]) # <<>> =>
                  /\ LastOf(WritesOf(log, c)) = Fragment(stream[c])
                  /\ LastOf(lw[c].lines) = Fragment(stream[c])
                  /\ lines[c] = lw[c].lines \o <<EndOfLogs>>

\* The lines of an invocation are set in one step only, the one of its
\* flush, taken after cmd.Run() returned; the subprocess writes only while
\* it runs and before that step, and the live sink gets nothing from the
\* invocation after it.
FlushOnce ==
    \A c \in Cmds :
        /\ lines'[c] # lines[c] =>
              /\ cmdpc[c] = "exited"
              /\ lines[c] = <<>>
              /\ stream'[c] = stream[c]
        /\ stream'[c] # stream[c] =>
              /\ cmdpc[c] = "running"
              /\ cmdpc'[c] = "running"
        /\ Returned(c) =>
              /\ WritesOf(log', c) = WritesOf(log, c)
              /\ lw'[c] = lw[c]
              /\ lbCurr'[c] = lbCurr[c]

\* C17: in execCommand the final flush happens exactly once per
\* invocation, only after the subprocess has exited and never while it
\* writes, on the success and on the failure path, and it delivers a
\* buffered unterminated rest to the live sink and to the captured lines.
C17_FlushOnceAfterExit == []FlushDelivered /\ [][FlushOnce]_vars

\* An invocation that failed and returned after its subprocess had
\* written an unterminated rest, while the other verification still runs.
C17_Witness ==
    /\ cmdpc[CshaIn] = "returned"
    /\ runErr[CshaIn] # Nil
    /\ stream[CshaIn] = <<"x">>
    /\ cmdpc[CshaOut] = "running"

\* ------------------------------------------------------------- C18
\* C18: the accumulators logw.curr and linew.curr never hold a completed
\* line between operations, and both are empty after the final flush
\* (Flush, Lines): a second Flush writes nothing and a second Lines
\* returns the same captured lines.
C18_AccumulatorsEmptyAfterFlush ==
    \A c \in Cmds :
        /\ ~HasNL(lbCurr[c])
        /\ ~HasNL(lw[c].curr)
        /\ Returned(c) =>
              /\ lbCurr[c] = <<>>
              /\ lineBuffer_Flush(lbCurr[c], TRUE).outs = <<>>
              /\ lw[c].curr = <<>>
              /\ linesWriter_Lines(lw[c]).lines = lw[c].lines

\* ------------------------------------------------------------- C19
BeforeFinalize == {"create", "args", "config", "checkIn", "checkOut",
                   "spawn", "wait", "sync", "rsync", "finalize"}

\* The title is empty up to the deferred function; when sendMail is
\* called it is the [ERROR] title if err is non-nil and the [SUCCESS]
\* title if err is nil; and from then on it goes with the kind of the
\* outcome section, the last of the report.
TitleOutcome ==
    /\ pc \in BeforeFinalize => title = "" /\ mailState = "none"
    /\ mailState # "none" => title \in {ErrorTitle, SuccessTitle}
    /\ pc = "mail" =>
          /\ err # Nil => title = ErrorTitle
          /\ err = Nil => title = SuccessTitle
    /\ title = ErrorTitle =>
          sections # <<>> /\ sections[Len(sections)].Title = "Error"
    /\ title = SuccessTitle =>
          sections # <<>> /\ sections[Len(sections)].Title = "Success"

\* The title is assigned in the step from "finalize" only, and not again.
TitleOnce ==
    title' # title => pc = "finalize" /\ title = "" /\ pc' = "mail"

\* C19: the title of the report is empty in every state before Finalize
\* and is assigned exactly once, in Finalize, before the report goes to
\* sendMail: the [ERROR] title exactly when the workflow error is non-nil
\* at that point, the [SUCCESS] title otherwise, always in agreement with
\* the kind of the outcome section.
C19_TitleMatchesOutcome == []TitleOutcome /\ [][TitleOnce]_vars

\* sendMail is about to run with the [ERROR] title after the check of a
\* folder failed.
C19_Witness ==
    /\ pc = "mail"
    /\ title = ErrorTitle
    /\ stage["checkOut"] = "fail"
    /\ Len(sections) = 1

\* ------------------------------------------------------------- C20
\* What a linesWriter of its own holds after the transcript t.
OwnCapture(t) == linesWriter_Write([lines |-> <<>>, curr |-> <<>>], t)
SectionOf(t) == sections[CHOOSE i \in 1..Len(sections) : sections[i].Title = t]
VerifyTitle(c) == IF c = CshaIn THEN InSectionTitle ELSE OutSectionTitle

\* C20: each of the two verification tasks has its own capture buffer and
\* its own result variables: in every interleaving the buffer of a task
\* holds what its own subprocess wrote and nothing else, its result
\* variables are set by its own return only, the lines it returns are the
\* lines of its own subprocess and the end marker, and run() reads the two
\* results only after the join.
C20_TaskOwnsItsCapture ==
    \A c \in Verifiers :
        /\ ~Returned(c) =>
              /\ lw[c] = OwnCapture(stream[c])
              /\ lines[c] = <<>>
              /\ cerr[c] = Nil
        /\ Returned(c) =>
              /\ lw[c] = linesWriter_Lines(OwnCapture(stream[c]))
              /\ lines[c] = lw[c].lines \o <<EndOfLogs>>
              /\ cerr[c] = execResult(runErr[c])
        /\ HasSection(VerifyTitle(c)) =>
              /\ wg = 0
              /\ \A d \in Verifiers : cmdpc[d] = "done"
              /\ SectionOf(VerifyTitle(c)).LogLines = lines[c]

\* Both results are in the report after runs in which the two
\* subprocesses wrote different things while both were running.
C20_Witness ==
    /\ HasSection(InSectionTitle)
    /\ HasSection(OutSectionTitle)
    /\ stream[CshaIn] = <<"x", NL>>
    /\ stream[CshaOut] = <<"x", "x">>
    /\ lines[CshaIn] # lines[CshaOut]

\* ------------------------------------------------------------- C21
\* Where run() stands once wg.Wait() has returned.
PastJoin == {"sync", "rsync"} \cup AfterRun

\* No subprocess stays running for ever.
BothExit == \A c \in Verifiers : []<>(cmdpc[c] # "running")

\* When both goroutines are done the counter is zero.
NoWaitGroupDeadlock ==
    (pc = "wait" /\ \A c \in Verifiers : cmdpc[c] = "done") => joined(wg)

\* C21: under fair scheduling, if both verification subprocesses
\* eventually exit, with any status, wg.Wait() eventually returns and the
\* run reaches the deferred finalisation and ends, and the wait group does
\* not block a run whose goroutines are done; if one verification
\* subprocess never exits, the run never gets to the sync step or to the
\* finalisation.
C21_JoinLiveness ==
    /\ []NoWaitGroupDeadlock
    /\ BothExit => ((pc = "wait") ~> (pc = "finalize"))
    /\ BothExit => ((pc = "wait") ~> (pc = "exit"))
    /\ \A c \in Verifiers :
          <>[](cmdpc[c] = "running") => [](pc \notin PastJoin)

\* The run has ended after the join, one subprocess having exited with
\* status 0 and the other with another status.
C21_Witness ==
    /\ pc = "exit"
    /\ \A c \in Verifiers : cmdpc[c] = "done"
    /\ runErr[CshaIn] = Nil
    /\ runErr[CshaOut] = <<"exit status 1">>
    /\ HasSection(OutSectionTitle)
====
